---- MODULE Spec2Model ----
(***************************************************************************)
(* Teardown of Amazon Personalize dataset groups                           *)
(* (src/src/aws-lambda/personalize-pre-create-resources/                   *)
(*  delete_dataset_groups.py).                                             *)
(*                                                                         *)
(* The run is single threaded; `pc` is its position.  The service is the   *)
(* environment: what a list call reports is an input of the run, chosen    *)
(* when the call is made and recorded in `remote` from then on; a resource *)
(* in a DELETE status disappears at a moment the service chooses.          *)
(***************************************************************************)
EXTENDS Integers, Sequences, FiniteSets, TLC

\* ---------------------------------------------------------------- bounds
MaxRes == 2        \* resources of one kind (and schemas) a group has
MaxNames == 2      \* length of dataset_group_names
CallSecs == 275    \* seconds the describe calls of one poll iteration take
MaxArgs == 3       \* length of the argv of _main
MaxProducts == 101 \* products in products.yaml
MaxFilters == 101  \* filters of the group whose filters are given (InitFilters)

\* ------------------------------------------------------ program constants
MaxWaitSecs == 30 * 60      \* max_time = time.time() + 30*60
SleepSecs == 20             \* time.sleep(20)
MaxResults == 100           \* list_filters(..., maxResults = 100)
MAX_BULK_BATCH_SIZE == 100  \* opensearch-pre-index.py

GroupNames == {"g1", "g2"}
Kinds == {"recommender", "campaign", "solution", "eventTracker", "filter", "dataset"}
Ids == 1 .. MaxRes
Statuses == {"ACTIVE", "CREATE FAILED", "DELETE PENDING", "CREATE PENDING"}

\* status in ['ACTIVE', 'CREATE FAILED']
Deletable(s) == s \in {"ACTIVE", "CREATE FAILED"}

\* status.startswith('DELETE')
Deleting(s) == s \in {"DELETE PENDING", "DELETE IN_PROGRESS"}

Min(a, b) == IF a < b THEN a ELSE b

Range(f) == {f[i] : i \in DOMAIN f}

\* list.remove() of the element at position i
RemoveAt(lst, i) == SubSeq(lst, 1, i - 1) \o SubSeq(lst, i + 1, Len(lst))

\* the statuses of the resources of a kind the service has, in list order
Survivors(res) == SelectSeq(res, LAMBDA st : st # "ABSENT")

\* A listing agrees with what the service is known to have: a resource that
\* exists is listed, with the status it had unless it was being created.
Lists(res, sts) ==
    /\ Len(sts) >= Len(Survivors(res))
    /\ \A j \in 1 .. Len(Survivors(res)) :
          \/ sts[j] = Survivors(res)[j]
          \/ Survivors(res)[j] = "LISTED"
          \/ Survivors(res)[j] = "CREATE PENDING" /\ ~Deleting(sts[j])

Listings == UNION {[1 .. n -> Statuses] : n \in 0 .. MaxRes}

NameLists == UNION {[1 .. n -> GroupNames] : n \in 0 .. MaxNames}

VARIABLES
    names,        \* dataset_group_names
    wait,         \* wait_for_resources
    versionOk,    \* botocore.__version__ >= min_botocore_version
    pc,           \* position of the run
    exc,          \* the exception that ended the run, "none" while it runs
    idx,          \* position of the for loop over dataset_group_names
    arn,          \* dataset_group_arn of the current name ("None" when unset)
    arns,         \* the *_arns lists, by kind
    schemaArns,   \* schema_arns
    schemaIdx,    \* position of the for loop over schema_arns
    clock,        \* seconds since max_time was set
    remote,       \* service: status of each resource of the current group
    remoteGroup,  \* service: status of each dataset group
    schemas,      \* service: state of each schema: "ABSENT", "SHARED" (a
                  \* dataset of another group uses it) or "EXCLUSIVE"
    listedKind,   \* log: kind the last step of the run listed, or "none"
    listed,       \* log: the statuses that step saw, in list order
    deleteCalls,  \* log: delete calls that step issued, by resource
    schemaCalls,  \* log: delete_schema calls of the run for this group
    groupCalls,   \* log: delete_dataset_group calls of the run for this group
    unconfirmed,  \* log: tracked resources not yet answered not-found
    described,    \* log: resources described by the last poll iteration
    notFound,     \* log: resources answered not-found in the last iteration
    failed,       \* log: resources whose describe failed otherwise in it
    schemaCode,   \* log: answer to the delete_schema call of the last step
    ended,        \* log: how each phase of the run for this group ended
    lastLog,      \* log: last message about the group as a whole
    cli,          \* _main: its argv and what it did
    search,       \* opensearch_create: its event, the index and what it did
    pin,          \* Pinpoint lambda_handler: its event, the offers service
                  \* and what it did
    bot           \* bot lambda_handler: its environment, its event, the
                  \* services and what it did

vars == <<names, wait, versionOk, pc, exc, idx, arn, arns, schemaArns,
          schemaIdx, clock, remote, remoteGroup, schemas, listedKind, listed,
          deleteCalls, schemaCalls, groupCalls, unconfirmed, described,
          notFound, failed, schemaCode, ended, lastLog, cli, search, pin, bot>>

Phases == Kinds \cup {"schema", "datasetGroup"}

NoResources == [k \in Kinds |-> [i \in Ids |-> "ABSENT"]]
NoArns == [k \in Kinds |-> <<>>]
NoCalls == [i \in Ids |-> 0]
NoSchemas == [s \in Ids |-> "ABSENT"]
NotEnded == [p \in Phases |-> "no"]

\* _main has not run
NoCli == [argv |-> <<>>, done |-> FALSE, exited |-> FALSE, code |-> 0,
          usage |-> FALSE, called |-> FALSE, names |-> <<>>, region |-> "None"]

\* opensearch_create has not run
NoSearch == [exists |-> FALSE, force |-> "None", products |-> 0, done |-> FALSE,
             calls |-> <<>>, batches |-> <<>>, bodies |-> <<>>, output |-> "None"]

\* the Pinpoint lambda_handler has not run
NoPin == [has |-> FALSE, eps |-> <<>>, offers |-> <<>>, done |-> FALSE,
          raised |-> "none", result |-> <<>>]

\* the bot lambda_handler has not run
NoBot == [usersUrl |-> "None", recsUrl |-> "None", intent |-> "None",
          userOk |-> FALSE, userId |-> "None", firstName |-> "", recsOk |-> FALSE,
          recs |-> 0, done |-> FALSE, raised |-> "none", calls |-> <<>>,
          state |-> "none", content |-> "none", cards |-> 0]

\* delete_dataset_groups has been called and has done nothing yet
RunStart ==
    /\ pc = "check_version"
    /\ exc = "none"
    /\ idx = 1
    /\ arn = "None"
    /\ arns = NoArns
    /\ schemaArns = <<>>
    /\ schemaIdx = 1
    /\ clock = 0
    /\ remote = NoResources
    /\ schemas = NoSchemas
    /\ listedKind = "none"
    /\ listed = <<>>
    /\ deleteCalls = NoCalls
    /\ schemaCalls = NoCalls
    /\ groupCalls = 0
    /\ unconfirmed = {}
    /\ described = {}
    /\ notFound = {}
    /\ failed = {}
    /\ schemaCode = "none"
    /\ ended = NotEnded
    /\ lastLog = "none"

Init ==
    /\ names \in NameLists
    /\ wait \in BOOLEAN
    /\ versionOk \in BOOLEAN
    /\ remoteGroup \in {g \in [GroupNames -> {"ABSENT", "ACTIVE"}] : g["g1"] = "ACTIVE"}
    /\ RunStart
    /\ cli = NoCli
    /\ search = NoSearch
    /\ pin = NoPin
    /\ bot = NoBot

\* ------------------------------------------------------------- helpers

\* (mutant of Raise) the exception is caught in the for loop over the names,
\* which goes on
RaiseAndContinue(e) == pc' = "next_name" /\ exc' = e

\* an uncaught exception ends the run
Raise(e) == pc' = "raised" /\ exc' = e

\* the run goes on
Goto(p) == pc' = p /\ exc' = exc

\* a step that lists nothing leaves no listing in the log
NoListing == listedKind' = "none" /\ listed' = <<>> /\ deleteCalls' = NoCalls

\* a step that polls nothing leaves no poll iteration in the log
NoPoll == described' = {} /\ notFound' = {} /\ failed' = {}

\* a step that deletes no schema
NoSchemaCall == schemaCode' = "none"

\* (mutant of GetDatasetGroupArn) the arn is made from the name, without the
\* lookup
GetDatasetGroupArnAny(name) == name

\* (mutant of GetDatasetGroupArn) the comparison of the names is missing: the
\* arn is that of the last group the listing reports
GetDatasetGroupArnLast(name) ==
    IF remoteGroup["g2"] # "ABSENT" THEN "g2"
    ELSE IF remoteGroup["g1"] # "ABSENT" THEN "g1" ELSE "None"

\* _get_dataset_group_arn: the arn of the group with that name, or None
GetDatasetGroupArn(name) ==
    IF remoteGroup[name] # "ABSENT" THEN name ELSE "None"

\* the else branch of the if/elif/else on a status
Undeletable(s) == ~Deletable(s) /\ ~Deleting(s)

\* position of the first resource of the listing whose status raises, 0
\* when none does
FirstBad(sts) ==
    LET bad == {i \in DOMAIN sts : Undeletable(sts[i])}
    IN IF bad = {} THEN 0 ELSE CHOOSE i \in bad : \A j \in bad : i <= j

\* (mutant of Handled) the loop goes through the whole listing and raises
\* after it
HandledAll(sts) == Len(sts)

\* number of listed resources the loop handled before it ended or raised
Handled(sts) == IF FirstBad(sts) = 0 THEN Len(sts) ELSE FirstBad(sts) - 1

\* the loop issued the delete call for resource i of the listing
DeleteIssued(sts, i) == i <= Handled(sts) /\ Deletable(sts[i])

\* the service after the loop: a resource deleted by the run is DELETE PENDING
AfterDeletes(sts) ==
    [i \in Ids |-> IF i > Len(sts) THEN "ABSENT"
                   ELSE IF DeleteIssued(sts, i) THEN "DELETE PENDING"
                   ELSE sts[i]]

CallsOf(sts) == [i \in Ids |-> IF i <= Len(sts) /\ DeleteIssued(sts, i) THEN 1 ELSE 0]

\* (mutant of Appended) the append of the arn is missing: nothing is tracked
AppendedNone(sts) == <<>>

\* the arns appended before the loop ended or raised
Appended(sts) == [i \in 1 .. Handled(sts) |-> i]

Tracked(k, lst) == {<<k, lst[i]>> : i \in DOMAIN lst}

\* One pass of `for x in lst: describe(x); on ResourceNotFoundException
\* lst.remove(x)`.  The iterator keeps a position in the list it iterates:
\* after a removal the next element has moved to the position just visited.
\* gone: resources the service answers not-found for; errs: resources whose
\* describe call fails with another ClientError, which the handler drops.
\* one step of the for loop: s.i is the position of the iterator, rm the
\* resources the step removes from the list
PollStep(s, rm, gone, errs) ==
    IF s.i > Len(s.arns) THEN s
    ELSE LET x == s.arns[s.i]
         IN [arns |-> IF x \in rm THEN RemoveAt(s.arns, s.i) ELSE s.arns,
             i |-> s.i + 1,
             described |-> s.described \cup {x},
             notFound |-> IF x \in gone /\ x \notin errs
                          THEN s.notFound \cup {x} ELSE s.notFound,
             failed |-> IF x \in errs THEN s.failed \cup {x} ELSE s.failed]

\* n steps of the for loop, or fewer when the loop ends before
RECURSIVE PollSteps(_, _, _, _, _)
PollSteps(s, n, rm, gone, errs) ==
    IF n = 0 \/ s.i > Len(s.arns) THEN s
    ELSE IF n = 1 THEN PollStep(s, rm, gone, errs)
    ELSE PollSteps(PollSteps(s, n \div 2, rm, gone, errs), n - n \div 2, rm, gone, errs)

\* the for loop from position i on: it ends within Len(lst) steps
PollFrom(lst, i, rm, gone, errs) ==
    LET r == PollSteps([arns |-> lst, i |-> i, described |-> {}, notFound |-> {},
                        failed |-> {}], Len(lst), rm, gone, errs)
    IN [arns |-> r.arns, described |-> r.described, notFound |-> r.notFound,
        failed |-> r.failed]

\* (mutant of PollPass) any ClientError of describe removes the resource
PollPassDropsFailed(lst, i, gone, errs) == PollFrom(lst, i, gone \cup errs, gone, errs)

PollPass(lst, i, gone, errs) == PollFrom(lst, i, gone \ errs, gone, errs)

\* (mutant of AfterPass) without wait_for_resources the loop is left as if
\* nothing were pending
AfterPassNoWait(lst, w) ==
    IF lst = <<>> THEN "break" ELSE IF w THEN "sleep" ELSE "break"

\* what follows the for loop of a poll iteration
AfterPass(lst, w) ==
    IF lst = <<>> THEN "break" ELSE IF w THEN "sleep" ELSE "ResourcePending"

\* (mutant of AfterTimeout) the check after the while loop is missing
AfterTimeoutReturns(lst) == "return"

\* what follows the while loop once time.time() < max_time is false
AfterTimeout(lst) == IF lst # <<>> THEN "ResourcePending" ELSE "return"

\* what follows the while loop of _delete_dataset_group once it times out
AfterGroupTimeout == "return"

\* delete_schema as the service answers it
DeleteSchemaResponse(st, fault) ==
    IF fault THEN "InternalError"
    ELSE IF st = "ABSENT" THEN "ResourceNotFoundException"
    ELSE IF st = "SHARED" THEN "ResourceInUseException"
    ELSE "ok"

\* (mutant of SchemaErrorSwallowed) the except clause drops every ClientError
SchemaErrorSwallowedAny(code) == TRUE

\* the except clause around delete_schema
SchemaErrorSwallowed(code) == code = "ResourceInUseException"

ListPc == [k \in Kinds |-> CASE k = "recommender" -> "list_recommenders"
                             [] k = "campaign" -> "list_campaigns"
                             [] k = "solution" -> "get_solutions"
                             [] k = "eventTracker" -> "list_event_trackers"
                             [] k = "filter" -> "list_filters"
                             [] k = "dataset" -> "list_datasets"]

PollPc == [k \in Kinds |-> CASE k = "recommender" -> "poll_recommenders"
                             [] k = "campaign" -> "poll_campaigns"
                             [] k = "solution" -> "poll_solutions"
                             [] k = "eventTracker" -> "poll_event_trackers"
                             [] k = "filter" -> "poll_filters"
                             [] k = "dataset" -> "poll_datasets"]

\* ------------------------------------------------------------- the run

\* (mutant of CheckVersion) the version is compared but nothing is raised
CheckVersionLax ==
    /\ pc = "check_version"
    /\ Goto("next_name")
    /\ UNCHANGED <<pin, bot, cli, search, names, wait, versionOk, idx, arn, arns, schemaArns,
                   schemaIdx, clock, remote, remoteGroup, schemas, listedKind,
                   listed, deleteCalls, schemaCalls, groupCalls, unconfirmed,
                   described, notFound, failed, schemaCode, ended, lastLog>>

\* delete_dataset_groups, the version gate
CheckVersion ==
    /\ pc = "check_version"
    /\ IF versionOk THEN Goto("next_name") ELSE Raise("Exception")
    /\ UNCHANGED <<pin, bot, cli, search, names, wait, versionOk, idx, arn, arns, schemaArns,
                   schemaIdx, clock, remote, remoteGroup, schemas, listedKind,
                   listed, deleteCalls, schemaCalls, groupCalls, unconfirmed,
                   described, notFound, failed, schemaCode, ended, lastLog>>

\* delete_dataset_groups, head of the for loop over the names
NextName ==
    /\ pc = "next_name"
    /\ IF idx > Len(names)
       THEN /\ pc' = "done"
            /\ UNCHANGED <<idx, arn, lastLog, ended, schemaCalls, groupCalls,
                           schemaArns, schemaIdx>>
       ELSE IF GetDatasetGroupArn(names[idx]) = "None"
       THEN /\ pc' = "next_name"
            /\ idx' = idx + 1
            /\ lastLog' = "does not exist"
            /\ UNCHANGED <<arn, ended, schemaCalls, groupCalls,
                           schemaArns, schemaIdx>>
       ELSE /\ pc' = "get_solutions"
            /\ arn' = GetDatasetGroupArn(names[idx])
            /\ lastLog' = "none"
            /\ ended' = NotEnded
            /\ schemaCalls' = NoCalls
            /\ groupCalls' = 0
            /\ schemaArns' = <<>>
            /\ schemaIdx' = 1
            /\ idx' = idx
    /\ NoListing
    /\ NoPoll
    /\ NoSchemaCall
    /\ UNCHANGED <<pin, bot, cli, search, names, wait, versionOk, exc, arns, clock, remote,
                   remoteGroup, schemas, unconfirmed>>

\* _get_solutions: the arns of the solutions list_solutions reports.  The
\* run reads no status here; "LISTED" stands for a status it has yet to read.
GetSolutions ==
    /\ pc = "get_solutions"
    /\ \E n \in Len(Survivors(remote["solution"])) .. MaxRes :
          /\ remote' = [remote EXCEPT !["solution"] =
                            [i \in Ids |-> IF i <= n THEN "LISTED" ELSE "ABSENT"]]
          /\ arns' = [arns EXCEPT !["solution"] = [i \in 1 .. n |-> i]]
          /\ unconfirmed' = unconfirmed \cup {<<"solution", i>> : i \in 1 .. n}
    /\ Goto("list_recommenders")
    /\ NoListing
    /\ NoPoll
    /\ NoSchemaCall
    /\ UNCHANGED <<pin, bot, cli, search, names, wait, versionOk, idx, arn, schemaArns, schemaIdx,
                   clock, remoteGroup, schemas, schemaCalls, groupCalls,
                   ended, lastLog>>

\* the list-and-delete loop of one kind, given what the listing reports
ListAndDelete(k, sts, next) ==
    /\ Lists(remote[k], sts)
    /\ remote' = [remote EXCEPT ![k] = AfterDeletes(sts)]
    /\ arns' = [arns EXCEPT ![k] = Appended(sts)]
    /\ unconfirmed' = unconfirmed \cup Tracked(k, Appended(sts))
    /\ listedKind' = k
    /\ listed' = sts
    /\ deleteCalls' = CallsOf(sts)
    /\ IF FirstBad(sts) # 0 THEN Raise("Exception") ELSE Goto(next)
    /\ NoPoll
    /\ NoSchemaCall
    /\ UNCHANGED <<pin, bot, cli, search, names, wait, versionOk, idx, arn, clock, remoteGroup,
                   schemaCalls, groupCalls, ended, lastLog>>

\* _delete_recommenders_and_campaigns, the recommender listing
ListRecommenders ==
    /\ pc = "list_recommenders"
    /\ \E sts \in Listings : ListAndDelete("recommender", sts, "list_campaigns")
    /\ UNCHANGED <<schemaArns, schemaIdx, schemas>>

\* _delete_recommenders_and_campaigns, the campaign listing of each solution
ListCampaigns ==
    /\ pc = "list_campaigns"
    /\ \E sts \in Listings :
          /\ arns["solution"] = <<>> => sts = <<>>
          /\ ListAndDelete("campaign", sts, "poll_recommenders")
    /\ UNCHANGED <<schemaArns, schemaIdx, schemas>>

\* The while loop every phase ends with: one step is one evaluation of the
\* loop condition and, when it holds, one iteration of the loop.  errs: the
\* describe calls that fail, taken among the first MaxRes tracked resources.
PollLoop(k, next) ==
    /\ pc = PollPc[k]
    /\ IF clock < MaxWaitSecs
       THEN \E errs \in SUBSET Range(SubSeq(arns[k], 1, Min(Len(arns[k]), MaxRes))) :
              LET gone == {i \in DOMAIN remote[k] : remote[k][i] = "ABSENT"}
                  r == PollPass(arns[k], 1, gone, errs)
                  then == AfterPass(r.arns, wait)
              IN /\ arns' = [arns EXCEPT ![k] = r.arns]
                 /\ unconfirmed' = unconfirmed \ {<<k, i>> : i \in r.notFound}
                 /\ described' = {<<k, i>> : i \in r.described}
                 /\ notFound' = {<<k, i>> : i \in r.notFound}
                 /\ failed' = {<<k, i>> : i \in r.failed}
                 /\ CASE then = "break" ->
                           /\ Goto(next)
                           /\ clock' = 0
                           /\ ended' = [ended EXCEPT ![k] =
                                           IF r.arns = <<>> THEN "empty" ELSE "nonempty"]
                      [] then = "sleep" ->
                           /\ Goto(pc)
                           /\ clock' = clock + CallSecs + SleepSecs
                           /\ UNCHANGED ended
                      [] OTHER ->
                           /\ Raise(then)
                           /\ UNCHANGED <<clock, ended>>
       ELSE /\ IF AfterTimeout(arns[k]) = "return"
               THEN /\ Goto(next)
                    /\ clock' = 0
                    /\ ended' = [ended EXCEPT ![k] =
                                    IF arns[k] = <<>> THEN "empty" ELSE "nonempty"]
               ELSE /\ Raise(AfterTimeout(arns[k]))
                    /\ UNCHANGED <<clock, ended>>
            /\ UNCHANGED <<arns, unconfirmed, described, notFound, failed>>
    /\ NoListing
    /\ NoSchemaCall
    /\ UNCHANGED <<pin, bot, cli, search, names, wait, versionOk, idx, arn, schemaArns, schemaIdx,
                   remote, remoteGroup, schemas, schemaCalls, groupCalls, lastLog>>

\* _delete_recommenders_and_campaigns, the recommender poll loop
PollRecommenders == PollLoop("recommender", "poll_campaigns")

\* _delete_recommenders_and_campaigns, the campaign poll loop
PollCampaigns == PollLoop("campaign", "delete_solutions")

\* _delete_solutions, the describe-and-delete loop.  seen: what
\* describe_solution answers for each solution, "ABSENT" standing for
\* ResourceNotFoundException (the solution was being deleted and is gone),
\* which the loop ignores.  err: position of the solution whose
\* describe_solution call fails with another ClientError, 0 when none does.
DeleteSolutions ==
    /\ pc = "delete_solutions"
    /\ \E seen \in [1 .. Len(arns["solution"]) -> Statuses \cup {"ABSENT"}],
          err \in 0 .. Len(arns["solution"]) :
         LET lst == arns["solution"]
             stops == {i \in 1 .. Len(lst) :
                          \/ i = err
                          \/ seen[i] # "ABSENT" /\ Undeletable(seen[i])}
             stop == IF stops = {} THEN 0
                     ELSE CHOOSE i \in stops : \A j \in stops : i <= j
             issued == {lst[i] : i \in {j \in 1 .. Len(lst) :
                                          /\ stop = 0 \/ j < stop
                                          /\ Deletable(seen[j])}}
         IN /\ remote' = [remote EXCEPT !["solution"] =
                  [i \in Ids |-> IF i \in issued THEN "DELETE PENDING"
                                 ELSE IF \E j \in 1 .. Len(lst) : lst[j] = i
                                 THEN seen[CHOOSE j \in 1 .. Len(lst) : lst[j] = i]
                                 ELSE @[i]]]
            /\ listedKind' = "solution"
            /\ listed' = seen
            /\ deleteCalls' = [i \in Ids |-> IF i \in issued THEN 1 ELSE 0]
            /\ IF stop = 0 THEN Goto("poll_solutions")
               ELSE IF stop = err THEN Raise("ClientError")
               ELSE Raise("Exception")
    /\ NoSchemaCall
    /\ UNCHANGED <<pin, bot, cli, search, names, wait, versionOk, idx, arn, arns, schemaArns, schemaIdx,
                   clock, remoteGroup, schemas, schemaCalls, groupCalls,
                   unconfirmed, described, notFound, failed, ended, lastLog>>

\* _delete_solutions, the poll loop
PollSolutions == PollLoop("solution", "list_event_trackers")

\* _delete_event_trackers, the listing
ListEventTrackers ==
    /\ pc = "list_event_trackers"
    /\ \E sts \in Listings : ListAndDelete("eventTracker", sts, "poll_event_trackers")
    /\ UNCHANGED <<schemaArns, schemaIdx, schemas>>

\* _delete_event_trackers, the poll loop
PollEventTrackers == PollLoop("eventTracker", "list_filters")

\* _delete_filters, the listing: one list_filters call of at most maxResults
\* filters, and delete_filter for each whatever its status.  sts: the
\* filters the group has, those the service is known to have among them.
ListFilters ==
    /\ pc = "list_filters"
    /\ \E sts \in {l \in Listings \cup {Survivors(remote["filter"])} :
                       Lists(remote["filter"], l)} :
         LET page == SubSeq(sts, 1, Min(Len(sts), MaxResults))
         IN /\ remote' = [remote EXCEPT !["filter"] =
                  [i \in DOMAIN @ |-> IF i > Len(sts) THEN "ABSENT"
                                 ELSE IF i <= Len(page) THEN "DELETE PENDING"
                                 ELSE sts[i]]]
            /\ arns' = [arns EXCEPT !["filter"] = [i \in 1 .. Len(page) |-> i]]
            /\ unconfirmed' = unconfirmed \cup {<<"filter", i>> : i \in 1 .. Len(page)}
            /\ listedKind' = "filter"
            /\ listed' = page
            /\ deleteCalls' = [i \in DOMAIN remote["filter"] |->
                                  IF i <= Len(page) THEN 1 ELSE 0]
    /\ Goto("poll_filters")
    /\ NoPoll
    /\ NoSchemaCall
    /\ UNCHANGED <<pin, bot, cli, search, names, wait, versionOk, idx, arn, schemaArns, schemaIdx,
                   clock, remoteGroup, schemas, schemaCalls, groupCalls,
                   ended, lastLog>>

\* _delete_filters, the poll loop
PollFilters == PollLoop("filter", "list_datasets")

\* _delete_datasets_and_schemas, the listing.  sch: the schemaArn
\* describe_dataset reports for each dataset; shared: the schemas a dataset
\* of another dataset group uses too.  A schema no listed dataset references
\* stays as it is.
ListDatasets ==
    /\ pc = "list_datasets"
    /\ \E sts \in Listings :
         \E sch \in [1 .. Len(sts) -> Ids] :
           \E shared \in SUBSET Range(sch) :
             /\ ListAndDelete("dataset", sts, "poll_datasets")
             /\ schemaArns' = [i \in 1 .. Min(Len(sts), Handled(sts) + 1) |-> sch[i]]
             /\ schemas' = [s \in Ids |-> IF s \in shared THEN "SHARED"
                                          ELSE IF s \in Range(sch) THEN "EXCLUSIVE"
                                          ELSE schemas[s]]
    /\ schemaIdx' = 1

\* _delete_datasets_and_schemas, the poll loop
PollDatasets == PollLoop("dataset", "delete_schemas")

\* _delete_datasets_and_schemas, one iteration of the loop over schema_arns
\* (or its end).  fault: delete_schema fails for a reason of the service's.
DeleteSchema ==
    /\ pc = "delete_schemas"
    /\ IF schemaIdx > Len(schemaArns)
       THEN /\ Goto("delete_dataset_group")
            /\ ended' = [ended EXCEPT !["schema"] = "attempted"]
            /\ schemaCode' = "none"
            /\ UNCHANGED <<schemas, schemaCalls, schemaArns, schemaIdx>>
       ELSE \E fault \in BOOLEAN :
              LET s == schemaArns[schemaIdx]
                  code == DeleteSchemaResponse(schemas[s], fault)
              IN /\ schemaCalls' = [schemaCalls EXCEPT ![s] = @ + 1]
                 /\ schemaCode' = code
                 /\ schemas' = [schemas EXCEPT ![s] = IF code = "ok" THEN "ABSENT" ELSE @]
                 /\ IF code = "ok" \/ SchemaErrorSwallowed(code)
                    THEN Goto(pc) /\ schemaIdx' = schemaIdx + 1
                    ELSE Raise("ClientError") /\ schemaIdx' = schemaIdx
                 /\ UNCHANGED <<ended, schemaArns>>
    /\ NoListing
    /\ NoPoll
    /\ UNCHANGED <<pin, bot, cli, search, names, wait, versionOk, idx, arn, arns, clock, remote,
                   remoteGroup, groupCalls, unconfirmed, lastLog>>

\* _delete_dataset_group, the delete call
DeleteDatasetGroup ==
    /\ pc = "delete_dataset_group"
    /\ groupCalls' = groupCalls + 1
    /\ remoteGroup' = [remoteGroup EXCEPT ![arn] = "DELETE PENDING"]
    /\ clock' = 0
    /\ Goto("poll_dataset_group")
    /\ NoListing
    /\ NoPoll
    /\ NoSchemaCall
    /\ UNCHANGED <<pin, bot, cli, search, names, wait, versionOk, idx, arn, arns, schemaArns,
                   schemaIdx, remote, schemas, schemaCalls, unconfirmed,
                   ended, lastLog>>

\* _delete_dataset_group, the poll loop, and the log line that follows the
\* call in delete_dataset_groups.  fault: describe_dataset_group fails with
\* a ClientError other than ResourceNotFoundException.
PollDatasetGroup ==
    /\ pc = "poll_dataset_group"
    /\ IF clock < MaxWaitSecs
       THEN \E fault \in BOOLEAN :
              IF fault
              THEN Raise("ClientError") /\ UNCHANGED <<clock, idx, ended, lastLog>>
              ELSE IF remoteGroup[arn] = "ABSENT"
              THEN /\ Goto("next_name")
                   /\ clock' = 0
                   /\ idx' = idx + 1
                   /\ ended' = [ended EXCEPT !["datasetGroup"] = "empty"]
                   /\ lastLog' = "fully deleted"
              ELSE IF ~wait
              THEN Raise("ResourcePending") /\ UNCHANGED <<clock, idx, ended, lastLog>>
              ELSE /\ Goto(pc)
                   /\ clock' = clock + CallSecs + SleepSecs
                   /\ UNCHANGED <<idx, ended, lastLog>>
       ELSE IF AfterGroupTimeout = "return"
       THEN /\ Goto("next_name")
            /\ clock' = 0
            /\ idx' = idx + 1
            /\ ended' = [ended EXCEPT !["datasetGroup"] =
                            IF remoteGroup[arn] = "ABSENT" THEN "empty" ELSE "nonempty"]
            /\ lastLog' = "fully deleted"
       ELSE Raise(AfterGroupTimeout) /\ UNCHANGED <<clock, idx, ended, lastLog>>
    /\ NoListing
    /\ NoPoll
    /\ NoSchemaCall
    /\ UNCHANGED <<pin, bot, cli, search, names, wait, versionOk, arn, arns, schemaArns, schemaIdx,
                   remote, remoteGroup, schemas, schemaCalls, groupCalls,
                   unconfirmed>>

\* ------------------------------------------------------------ the service

\* the service completes a deletion: the resource no longer exists
ServiceDeletesResource ==
    /\ \E k \in Kinds, i \in Ids :
          /\ Deleting(remote[k][i])
          /\ remote' = [remote EXCEPT ![k][i] = "ABSENT"]
    /\ UNCHANGED <<pin, bot, cli, search, names, wait, versionOk, pc, exc, idx, arn, arns, schemaArns,
                   schemaIdx, clock, remoteGroup, schemas, listedKind, listed,
                   deleteCalls, schemaCalls, groupCalls, unconfirmed, described,
                   notFound, failed, schemaCode, ended, lastLog>>

\* the service completes the deletion of a dataset group
ServiceDeletesGroup ==
    /\ \E g \in GroupNames :
          /\ Deleting(remoteGroup[g])
          /\ remoteGroup' = [remoteGroup EXCEPT ![g] = "ABSENT"]
    /\ UNCHANGED <<pin, bot, cli, search, names, wait, versionOk, pc, exc, idx, arn, arns, schemaArns,
                   schemaIdx, clock, remote, schemas, listedKind, listed,
                   deleteCalls, schemaCalls, groupCalls, unconfirmed, described,
                   notFound, failed, schemaCode, ended, lastLog>>

\* delete_dataset_groups is invoked again with the same arguments after an
\* invocation that raised, once the service has completed the deletions
\* that invocation issued.  The process is a new one: nothing but the state
\* of the service is left of the first.
Rerun ==
    /\ pc = "raised"
    /\ \A k \in Kinds, i \in Ids : ~Deleting(remote[k][i])
    /\ \A g \in GroupNames : ~Deleting(remoteGroup[g])
    /\ pc' = "check_version"
    /\ exc' = "none"
    /\ idx' = 1
    /\ arn' = "None"
    /\ arns' = NoArns
    /\ schemaArns' = <<>>
    /\ schemaIdx' = 1
    /\ clock' = 0
    /\ schemaCalls' = NoCalls
    /\ groupCalls' = 0
    /\ unconfirmed' = {}
    /\ ended' = NotEnded
    /\ lastLog' = "none"
    /\ NoListing
    /\ NoPoll
    /\ NoSchemaCall
    /\ UNCHANGED <<pin, bot, cli, search, names, wait, versionOk, remote, remoteGroup, schemas>>

Next ==
    \/ CheckVersion
    \/ NextName
    \/ GetSolutions
    \/ ListRecommenders
    \/ ListCampaigns
    \/ PollRecommenders
    \/ PollCampaigns
    \/ DeleteSolutions
    \/ PollSolutions
    \/ ListEventTrackers
    \/ PollEventTrackers
    \/ ListFilters
    \/ PollFilters
    \/ ListDatasets
    \/ PollDatasets
    \/ DeleteSchema
    \/ DeleteDatasetGroup
    \/ PollDatasetGroup
    \/ ServiceDeletesResource
    \/ ServiceDeletesGroup

Spec == Init /\ [][Next]_vars

NextRerun ==
    \/ Next
    \/ Rerun

\* the invocations of delete_dataset_groups with one list of names, each
\* after the first a re-run of one that raised
InitRerun ==
    /\ Init
    /\ names = <<"g1">>
    /\ remoteGroup["g2"] = "ABSENT"
    /\ versionOk
    /\ ~wait

SpecRerun == InitRerun /\ [][NextRerun]_vars

\* -------------------------------------------- a group with many filters

\* the service completes the deletion of every filter that is being deleted
ServiceDeletesFilters ==
    /\ \E i \in DOMAIN remote["filter"] : Deleting(remote["filter"][i])
    /\ remote' = [remote EXCEPT !["filter"] =
                     [i \in DOMAIN @ |-> IF Deleting(@[i]) THEN "ABSENT" ELSE @[i]]]
    /\ UNCHANGED <<pin, bot, cli, search, names, wait, versionOk, pc, exc, idx, arn, arns, schemaArns,
                   schemaIdx, clock, remoteGroup, schemas, listedKind, listed,
                   deleteCalls, schemaCalls, groupCalls, unconfirmed, described,
                   notFound, failed, schemaCode, ended, lastLog>>

\* delete_dataset_groups(["g1"]) has reached _delete_filters: the group has
\* no recommender, campaign, solution or event tracker, and the service has
\* n ACTIVE filters of it
InitFilters ==
    /\ names = <<"g1">>
    /\ wait \in BOOLEAN
    /\ versionOk = TRUE
    /\ remoteGroup = [g \in GroupNames |-> IF g = "g1" THEN "ACTIVE" ELSE "ABSENT"]
    /\ pc = "list_filters"
    /\ exc = "none"
    /\ idx = 1
    /\ arn = "g1"
    /\ arns = NoArns
    /\ schemaArns = <<>>
    /\ schemaIdx = 1
    /\ clock = 0
    /\ \E n \in 0 .. MaxFilters :
          remote = [NoResources EXCEPT !["filter"] =
                       [i \in 1 .. MaxFilters |-> IF i <= n THEN "ACTIVE" ELSE "ABSENT"]]
    /\ schemas = NoSchemas
    /\ listedKind = "none"
    /\ listed = <<>>
    /\ deleteCalls = NoCalls
    /\ schemaCalls = NoCalls
    /\ groupCalls = 0
    /\ unconfirmed = {}
    /\ described = {}
    /\ notFound = {}
    /\ failed = {}
    /\ schemaCode = "none"
    /\ ended = [p \in Phases |->
                  IF p \in {"recommender", "campaign", "solution", "eventTracker"}
                  THEN "empty" ELSE "no"]
    /\ lastLog = "none"
    /\ cli = NoCli
    /\ search = NoSearch
    /\ pin = NoPin
    /\ bot = NoBot

NextFilters ==
    \/ ListFilters
    \/ PollFilters
    \/ ListDatasets
    \/ PollDatasets
    \/ DeleteSchema
    \/ DeleteDatasetGroup
    \/ PollDatasetGroup
    \/ NextName
    \/ ServiceDeletesFilters
    \/ ServiceDeletesGroup

SpecFilters == InitFilters /\ [][NextFilters]_vars

\* ---------------------------------------------------------------- _main

\* what an element of argv can be
Tokens == {"-h", "-n", "-r", "-x", "--name", "g1", "g1,g2", ""}

Argvs == UNION {[1 .. n -> Tokens] : n \in 0 .. MaxArgs}

\* the options of getopt(argv, 'hn:r:', ['name=', 'region=']) that take an
\* argument
TakesArg(t) == t \in {"-n", "-r", "--name", "--region"}

\* getopt.getopt from position i on: it stops at the first element that is
\* no option, takes the next element, whatever it is, as the argument of an
\* option that needs one, and fails (GetoptError) on an option it does not
\* know or on a missing argument.
RECURSIVE Getopt(_, _, _)
Getopt(argv, i, opts) ==
    IF i > Len(argv) THEN [ok |-> TRUE, opts |-> opts]
    ELSE IF argv[i] = "-h"
    THEN Getopt(argv, i + 1, Append(opts, [opt |-> "-h", arg |-> ""]))
    ELSE IF TakesArg(argv[i])
    THEN IF i = Len(argv) THEN [ok |-> FALSE, opts |-> <<>>]
         ELSE Getopt(argv, i + 2, Append(opts, [opt |-> argv[i], arg |-> argv[i + 1]]))
    ELSE IF argv[i] = "-x" THEN [ok |-> FALSE, opts |-> <<>>]
    ELSE [ok |-> TRUE, opts |-> opts]

\* arg.split(',')
Split(arg) == IF arg = "g1,g2" THEN <<"g1", "g2">> ELSE <<arg>>

\* sys.exit(code) after the usage message
Exits(c) == [exited |-> TRUE, code |-> c, usage |-> TRUE, called |-> FALSE,
             names |-> <<>>, region |-> "None"]

RECURSIVE MainLoopNoHelp(_, _, _, _)
\* (mutant of MainLoop) -h is not looked at
MainLoopNoHelp(opts, i, nm, rg) ==
    IF i > Len(opts)
    THEN IF Len(nm) = 0 THEN Exits(1)
         ELSE [exited |-> FALSE, code |-> 0, usage |-> FALSE, called |-> TRUE,
               names |-> nm, region |-> rg]
    ELSE IF opts[i].opt \in {"-n", "--name"}
    THEN MainLoopNoHelp(opts, i + 1, Split(opts[i].arg), rg)
    ELSE IF opts[i].opt \in {"-r", "--region"}
    THEN MainLoopNoHelp(opts, i + 1, nm, opts[i].arg)
    ELSE MainLoopNoHelp(opts, i + 1, nm, rg)

\* _main from the loop over the options on
RECURSIVE MainLoop(_, _, _, _)
MainLoop(opts, i, nm, rg) ==
    IF i > Len(opts)
    THEN IF Len(nm) = 0 THEN Exits(1)
         ELSE [exited |-> FALSE, code |-> 0, usage |-> FALSE, called |-> TRUE,
               names |-> nm, region |-> rg]
    ELSE IF opts[i].opt = "-h" THEN Exits(0)
    ELSE IF opts[i].opt \in {"-n", "--name"}
    THEN MainLoop(opts, i + 1, Split(opts[i].arg), rg)
    ELSE IF opts[i].opt \in {"-r", "--region"}
    THEN MainLoop(opts, i + 1, nm, opts[i].arg)
    ELSE MainLoop(opts, i + 1, nm, rg)

\* _main(argv)
Main ==
    /\ ~cli.done
    /\ LET parsed == Getopt(cli.argv, 1, <<>>)
           r == IF parsed.ok THEN MainLoop(parsed.opts, 1, <<>>, "None") ELSE Exits(2)
       IN cli' = [argv |-> cli.argv, done |-> TRUE, exited |-> r.exited,
                  code |-> r.code, usage |-> r.usage, called |-> r.called,
                  names |-> r.names, region |-> r.region]
    /\ UNCHANGED <<pin, bot, search, names, wait, versionOk, pc, exc, idx, arn, arns,
                   schemaArns, schemaIdx, clock, remote, remoteGroup, schemas,
                   listedKind, listed, deleteCalls, schemaCalls, groupCalls,
                   unconfirmed, described, notFound, failed, schemaCode, ended,
                   lastLog>>

\* delete_dataset_groups is not running
RunIdle ==
    /\ names = <<>>
    /\ wait = TRUE
    /\ versionOk = TRUE
    /\ remoteGroup = [g \in GroupNames |-> "ABSENT"]
    /\ RunStart

InitMain ==
    /\ cli \in {[NoCli EXCEPT !.argv = a] : a \in Argvs}
    /\ search = NoSearch
    /\ pin = NoPin
    /\ bot = NoBot
    /\ RunIdle

NextMain == Main

\* the process started with each command line
SpecMain == InitMain /\ [][NextMain]_vars

\* ---------------------------------------------------- opensearch_create

\* ResourceProperties without ForceIndex
Absent == "None"

\* the values ForceIndex is given
ForceValues == {"true", "True", "TRUE", "yes", "YES", "1", "no", "false", "0", "", "y"}

\* str.lower()
Lower(v) ==
    CASE v \in {"True", "TRUE"} -> "true"
      [] v = "YES" -> "yes"
      [] OTHER -> v

\* (mutant of ForceIndex) the default of .get('ForceIndex', ...) is 'yes'
ForceIndexDefaultsYes(v) ==
    Lower(IF v = Absent THEN "yes" ELSE v) \in {"true", "yes", "1"}

\* force_index
ForceIndex(v) ==
    Lower(IF v = Absent THEN "no" ELSE v) \in {"true", "yes", "1"}

\* create_index_and_bulk_load once the if on search.indices.exists is done
CreateIndexAndBulkLoad(exists, force) == ~exists \/ force

\* products_list: the product at each position has an id of its own
Products(n) == [p \in 1 .. n |-> [id |-> n + 1 - p]]

\* the action appended before a product
IndexAction(product) == [index |-> [_id |-> product.id]]

\* One iteration of the loop over products_list.  s.p is the position of the
\* loop, s.bulk is bulk_data, s.acc the bodies of the search.bulk calls made
\* so far; the call is made when bulk_data has limit entries or more.
BulkStep(s, products, limit) ==
    IF s.p > Len(products) THEN s
    ELSE LET data == s.bulk \o <<IndexAction(products[s.p]), products[s.p]>>
         IN IF Len(data) >= limit
            THEN [p |-> s.p + 1, bulk |-> <<>>, acc |-> Append(s.acc, data)]
            ELSE [p |-> s.p + 1, bulk |-> data, acc |-> s.acc]

\* n iterations of the loop, or fewer when the list ends before
RECURSIVE BulkSteps(_, _, _, _)
BulkSteps(s, n, products, limit) ==
    IF n = 0 \/ s.p > Len(products) THEN s
    ELSE IF n = 1 THEN BulkStep(s, products, limit)
    ELSE BulkSteps(BulkSteps(s, n \div 2, products, limit), n - n \div 2,
                   products, limit)

\* the loop from position p on, and the call for what is left after it
BulkFrom(products, p, bulk, acc, limit) ==
    LET r == BulkSteps([p |-> p, bulk |-> bulk, acc |-> acc], Len(products),
                       products, limit)
    IN IF Len(r.bulk) > 0 THEN Append(r.acc, r.bulk) ELSE r.acc

\* (mutant of BulkBodies) the call is made when bulk_data has more than
\* MAX_BULK_BATCH_SIZE entries
BulkBodiesLate(products, p, bulk, acc) ==
    BulkFrom(products, p, bulk, acc, MAX_BULK_BATCH_SIZE + 1)

\* The bodies of the search.bulk calls, from position p of products_list on:
\* bulk is bulk_data, acc the bodies of the calls made so far.
BulkBodies(products, p, bulk, acc) ==
    BulkFrom(products, p, bulk, acc, MAX_BULK_BATCH_SIZE)

\* the sizes of the bodies of the search.bulk calls
BulkBatches(bodies) == [b \in DOMAIN bodies |-> Len(bodies[b])]

\* opensearch_create(event, _)
OpensearchCreate ==
    /\ ~search.done
    /\ LET force == ForceIndex(search.force)
           load == CreateIndexAndBulkLoad(search.exists, force)
           bodies == IF load THEN BulkBodies(Products(search.products), 1, <<>>, <<>>)
                     ELSE <<>>
           batches == BulkBatches(bodies)
       IN search' = [search EXCEPT
               !.done = TRUE,
               !.calls = (IF search.exists /\ force THEN <<"delete">> ELSE <<>>)
                         \o (IF load THEN <<"create">> ELSE <<>>)
                         \o [b \in 1 .. Len(bodies) |-> "bulk"],
               !.batches = batches,
               !.bodies = bodies,
               !.output = IF load THEN "OpenSearch product index populated"
                          ELSE "OpenSearch product index already exists"]
    /\ UNCHANGED <<pin, bot, cli, names, wait, versionOk, pc, exc, idx, arn, arns,
                   schemaArns, schemaIdx, clock, remote, remoteGroup, schemas,
                   listedKind, listed, deleteCalls, schemaCalls, groupCalls,
                   unconfirmed, described, notFound, failed, schemaCode, ended,
                   lastLog>>

InitSearch ==
    /\ search \in {[NoSearch EXCEPT !.exists = e, !.force = f, !.products = n] :
                       e \in BOOLEAN, f \in ForceValues \cup {Absent},
                       n \in 0 .. MaxProducts}
    /\ cli = NoCli
    /\ pin = NoPin
    /\ bot = NoBot
    /\ RunIdle

NextSearch == OpensearchCreate

\* the handler invoked with each event on each state of the domain
SpecSearch == InitSearch /\ [][NextSearch]_vars

\* ------------------------------------- pinpoint-offers-recommender.py

MaxItems == 2   \* length of RecommendationItems

EndpointKeys == {"e1", "e2"}
ItemIds == {"7", "8"}

\* An endpoint of the event: whether it has an Address, and its
\* RecommendationItems if it has any.
Endpoints ==
    {e \in [hasAddress : BOOLEAN, hasItems : BOOLEAN,
            items : UNION {[1 .. n -> ItemIds] : n \in 0 .. MaxItems}] :
        ~e.hasItems => e.items = <<>>}

\* What the offers service answers to GET /offers/<id>: the offer, an offer
\* without codes, a response that is not ok, or no response at all.
OfferResponses(id) ==
    {[status |-> "ok", task |-> [codes |-> <<"CODE" \o id, "ALT" \o id>>,
                                 description |-> "Offer " \o id]],
     [status |-> "ok", task |-> [codes |-> <<>>, description |-> "Offer " \o id]],
     [status |-> "not ok", task |-> [codes |-> <<"error">>, description |-> "Not Found"]],
     [status |-> "unreachable", task |-> [codes |-> <<>>, description |-> ""]]}

\* (mutant of GetOfferById) the check of offers_response.ok is missing
GetOfferByIdUnchecked(offers, offer_id) ==
    LET r == offers[offer_id]
    IN [raised |-> IF r.status = "unreachable" THEN "ConnectionError" ELSE "none",
        isNone |-> FALSE,
        task |-> r.task]

\* get_offer_by_id: the offer, None, or the connection error of requests.get
GetOfferById(offers, offer_id) ==
    LET r == offers[offer_id]
    IN [raised |-> IF r.status = "unreachable" THEN "ConnectionError" ELSE "none",
        isNone |-> r.status # "ok",
        task |-> r.task]

\* the exception the loop body raises for an item, "none" when it does not
ItemRaises(offers, item_id) ==
    LET offer == GetOfferById(offers, item_id)
    IN IF offer.raised # "none" THEN offer.raised
       ELSE IF ~offer.isNone /\ offer.task.codes = <<>> THEN "IndexError"
       ELSE "none"

\* recommendations['OfferCode'][idx]
OfferCode(offers, item_id) ==
    LET offer == GetOfferById(offers, item_id)
    IN IF ~offer.isNone THEN offer.task.codes[1] ELSE "UNKNOWNID" \o item_id

\* recommendations['OfferDescription'][idx]
OfferDescription(offers, item_id) ==
    LET offer == GetOfferById(offers, item_id)
    IN IF ~offer.isNone THEN offer.task.description
       ELSE "Unknown code with id " \o item_id

\* {}
EmptyObject == [f \in {} |-> <<>>]

\* if recommended_items := endpoint.get('RecommendationItems')
RecommendedItems(endpoint) == endpoint.hasItems /\ endpoint.items # <<>>

\* endpoint['Recommendations']
Recommendations(offers, endpoint) ==
    IF RecommendedItems(endpoint)
    THEN [OfferCode |->
              [i \in 1 .. Len(endpoint.items) |-> OfferCode(offers, endpoint.items[i])],
          OfferDescription |->
              [i \in 1 .. Len(endpoint.items) |->
                  OfferDescription(offers, endpoint.items[i])]]
    ELSE EmptyObject

\* the items the handler looks up, in the order of the loops
LookedUp(eps) ==
    (IF "e1" \in DOMAIN eps /\ RecommendedItems(eps["e1"]) THEN eps["e1"].items ELSE <<>>)
    \o (IF "e2" \in DOMAIN eps /\ RecommendedItems(eps["e2"]) THEN eps["e2"].items ELSE <<>>)

\* the exception that ends the handler: that of the first item that raises
HandlerRaises(offers, eps) ==
    LET items == LookedUp(eps)
        bad == {i \in DOMAIN items : ItemRaises(offers, items[i]) # "none"}
    IN IF bad = {} THEN "none"
       ELSE ItemRaises(offers, items[CHOOSE i \in bad : \A j \in bad : i <= j])

\* new_endpoints: an endpoint without Address gets the one
\* pinpoint.get_endpoint reports
NewEndpoints(offers, eps) ==
    [key \in DOMAIN eps |->
        [Address |-> IF eps[key].hasAddress THEN "given" ELSE "fetched",
         RecommendationItems |-> eps[key].items,
         Recommendations |-> Recommendations(offers, eps[key])]]

\* lambda_handler(event, context)
PinpointHandler ==
    /\ ~pin.done
    /\ LET eps == IF pin.has /\ DOMAIN pin.eps # {} THEN pin.eps ELSE <<>>
           raised == HandlerRaises(pin.offers, eps)
       IN pin' = [pin EXCEPT
               !.done = TRUE,
               !.raised = raised,
               !.result = IF raised = "none" THEN NewEndpoints(pin.offers, eps)
                          ELSE <<>>]
    /\ UNCHANGED <<bot, cli, search, names, wait, versionOk, pc, exc, idx, arn, arns,
                   schemaArns, schemaIdx, clock, remote, remoteGroup, schemas,
                   listedKind, listed, deleteCalls, schemaCalls, groupCalls,
                   unconfirmed, described, notFound, failed, schemaCode, ended,
                   lastLog>>

InitPinpoint ==
    /\ \E has \in BOOLEAN :
         \E eps \in UNION {[K -> Endpoints] : K \in SUBSET EndpointKeys} :
           \E offers \in {f \in [ItemIds -> UNION {OfferResponses(i) : i \in ItemIds}] :
                              \A i \in ItemIds : f[i] \in OfferResponses(i)} :
             /\ ~has => eps = <<>>
             /\ pin = [NoPin EXCEPT !.has = has, !.eps = eps, !.offers = offers]
    /\ bot = NoBot
    /\ cli = NoCli
    /\ search = NoSearch
    /\ RunIdle

NextPinpoint == PinpointHandler

\* the handler invoked with each event
SpecPinpoint == InitPinpoint /\ [][NextPinpoint]_vars

\* ------------------------------------------ bot-intent-recommendations.py

MaxRecs == 2   \* recommendations the recommendations service returns

\* os.environ.get of a base url: unset ("None"), empty or set
BaseUrls == {"None", "", "http://service"}

IntentNames == {"RecommendProduct", "OrderStatus"}

\* 'id' of the body of the users service's response ("None": no such key)
UserIds == {"None", "", "u1"}

FirstNames == {"", "Ann"}

\* `not value` for a string or None
Unset(v) == v \in {"None", ""}

\* close(fulfillment_state, message)
Close(fulfillment_state, message, calls) ==
    [raised |-> "none", calls |-> calls, state |-> fulfillment_state,
     content |-> message, cards |-> 0]

\* (mutant of LookupUser) the check of the id is missing
LookupUserAnyId(ok, id) == ok

\* lookup_user returns a user (and not None)
LookupUser(ok, id) == ok /\ id # "None" /\ Len(id) > 0

\* get_recommendations: the number of recommendations returned, None when
\* the response is not ok
GetRecommendations(ok, n) == [isNone |-> ~ok, n |-> IF ok THEN n ELSE 0]

\* recommend_products(intent_request)
RecommendProducts(b) ==
    IF LookupUser(b.userOk, b.userId)
    THEN LET recommendations == GetRecommendations(b.recsOk, b.recs)
             user_name == IF b.firstName = "" THEN "there" ELSE b.firstName
         IN IF ~recommendations.isNone /\ recommendations.n > 0
            THEN [raised |-> "none", calls |-> <<"users", "recommendations">>,
                  state |-> "Fulfilled",
                  content |-> "Hi " \o user_name \o ". Based on your shopping trends, I think you may be interested in the following products.",
                  cards |-> recommendations.n]
            ELSE Close("Failed", "Sorry, I was unable to find any products to recommend.",
                       <<"users", "recommendations">>)
    ELSE Close("Failed", "Before I can make personalized recommendations, I need to know more about you. Please sign in or create an account and try again.",
               <<"users">>)

\* an exception ends the handler
Raised(e) == [raised |-> e, calls |-> <<>>, state |-> "none", content |-> "none",
              cards |-> 0]

\* dispatch(intent_request)
Dispatch(b) ==
    IF b.intent = "RecommendProduct" THEN RecommendProducts(b) ELSE Raised("Exception")

\* lambda_handler(event, context)
BotHandler ==
    /\ ~bot.done
    /\ LET r == IF Unset(bot.usersUrl) THEN Raised("ValueError")
                ELSE IF Unset(bot.recsUrl) THEN Raised("ValueError")
                ELSE Dispatch(bot)
       IN bot' = [bot EXCEPT !.done = TRUE, !.raised = r.raised, !.calls = r.calls,
                              !.state = r.state, !.content = r.content,
                              !.cards = r.cards]
    /\ UNCHANGED <<pin, cli, search, names, wait, versionOk, pc, exc, idx, arn, arns,
                   schemaArns, schemaIdx, clock, remote, remoteGroup, schemas,
                   listedKind, listed, deleteCalls, schemaCalls, groupCalls,
                   unconfirmed, described, notFound, failed, schemaCode, ended,
                   lastLog>>

InitBot ==
    /\ bot \in {[NoBot EXCEPT !.usersUrl = uu, !.recsUrl = ru, !.intent = it,
                               !.userOk = uo, !.userId = ui, !.firstName = fn,
                               !.recsOk = ro, !.recs = n] :
                    uu \in BaseUrls, ru \in BaseUrls, it \in IntentNames,
                    uo \in BOOLEAN, ui \in UserIds, fn \in FirstNames,
                    ro \in BOOLEAN, n \in 0 .. MaxRecs}
    /\ pin = NoPin
    /\ cli = NoCli
    /\ search = NoSearch
    /\ RunIdle

NextBot == BotHandler

\* the handler invoked with each event in each environment
SpecBot == InitBot /\ [][NextBot]_vars

\* ------------------------------------------------------------- the claims

\* a step of the run inside the poll loop of kind k (the service's steps
\* change remote or remoteGroup)
RunPollStep(k) ==
    /\ pc = PollPc[k]
    /\ remote' = remote
    /\ remoteGroup' = remoteGroup

\* C1: delete_dataset_group is issued for a group only after the
\* recommender, campaign, solution, event-tracker, filter and dataset phases
\* have each ended with an empty tracked set and schema deletion has been
\* attempted; a run that raised in an earlier phase has issued none.
C1_GroupDeletedLast ==
    /\ groupCalls > 0 =>
          /\ \A k \in Kinds : ended[k] = "empty" /\ arns[k] = <<>>
          /\ ended["schema"] = "attempted"
    /\ (pc = "raised" /\ ended["schema"] # "attempted") => groupCalls = 0

C1_Witness ==
    /\ groupCalls = 1
    /\ \E s \in Ids : schemaCalls[s] > 0

\* C2: delete_solution is issued only once the campaign poll loop has ended
\* with every listed campaign answered not-found.
C2_SolutionsAfterCampaigns ==
    (listedKind = "solution" /\ \E i \in Ids : deleteCalls[i] > 0) =>
        /\ ended["campaign"] = "empty"
        /\ arns["campaign"] = <<>>
        /\ \A i \in Ids : <<"campaign", i>> \notin unconfirmed

C2_Witness ==
    /\ listedKind = "solution"
    /\ deleteCalls[1] = 1
    /\ <<"campaign", 1>> \in notFound

\* C3 (as claimed): whenever the list-and-delete loop of a kind has run to
\* its end, every resource it saw ACTIVE or CREATE FAILED was submitted for
\* deletion exactly once and every resource it saw in a DELETE status was
\* not submitted.
C3_DeletedOnceByStatus ==
    (listedKind # "none" /\ pc # "raised") =>
        \A i \in DOMAIN listed :
            /\ Deletable(listed[i]) => deleteCalls[i] = 1
            /\ Deleting(listed[i]) => deleteCalls[i] = 0

\* C4 (as claimed): when the recommender listing holds a recommender in an
\* undeletable status, the run has raised and no delete call has been issued
\* for any recommender or any later kind.
C4_NoDeleteAtAll ==
    (listedKind = "recommender" /\ FirstBad(listed) # 0) =>
        /\ pc = "raised" /\ exc = "Exception"
        /\ deleteCalls = NoCalls

\* C4 (amended): when the recommender listing holds a recommender in an
\* undeletable status, the run has raised and no delete call has been issued
\* for that recommender, for a recommender listed after it, or for any later
\* kind, schema or group.
C4_NoDeleteFromBadOn ==
    (listedKind = "recommender" /\ FirstBad(listed) # 0) =>
        /\ pc = "raised" /\ exc = "Exception"
        /\ \A i \in Ids : i >= FirstBad(listed) => deleteCalls[i] = 0
        /\ \A i \in Ids : remote["solution"][i] \in {"LISTED", "ABSENT"}
        /\ \A k \in Kinds \ {"recommender", "solution"} :
              arns[k] = <<>> /\ \A i \in Ids : remote[k][i] = "ABSENT"
        /\ \A p \in Phases : ended[p] = "no"
        /\ schemaCalls = NoCalls
        /\ groupCalls = 0

C4_Witness ==
    /\ listedKind = "recommender"
    /\ FirstBad(listed) = 2
    /\ deleteCalls[1] = 1
    /\ pc = "raised"

\* C5 (as claimed): no phase, the deletion of the dataset group included,
\* returns while a resource it tracks is still there, and the group is
\* reported fully deleted only when it is gone.
C5_TimeoutRaises ==
    /\ \A p \in Phases : ended[p] # "nonempty"
    /\ lastLog = "fully deleted" => remoteGroup[arn] = "ABSENT"

\* C6 (as claimed): a poll iteration describes every resource tracked at its
\* start, and leaves tracked exactly those that still exist (or whose
\* describe call failed).
C6_PollDescribesAll ==
    [][\A k \in Kinds :
          (RunPollStep(k) /\ clock < MaxWaitSecs) =>
              /\ described' = Tracked(k, arns[k])
              /\ Range(arns'[k]) = {i \in Range(arns[k]) :
                                       remote[k][i] # "ABSENT" \/ <<k, i>> \in failed'}]_vars

\* C7 (as claimed): without wait_for_resources no phase sleeps, and
\* ResourcePending is raised only when a tracked resource still exists at
\* that poll (or its describe call failed).
C7_NoWaitFailsFast ==
    [][~wait =>
          /\ clock' = 0
          /\ (pc # "raised" /\ pc' = "raised" /\ exc' = "ResourcePending") =>
                \/ \E k \in Kinds :
                      /\ pc = PollPc[k]
                      /\ \E i \in Range(arns[k]) :
                            remote[k][i] # "ABSENT" \/ <<k, i>> \in failed'
                \/ pc = "poll_dataset_group" /\ remoteGroup[arn] # "ABSENT"]_vars

\* C8: once the list step of a kind is done its tracked set gains nothing,
\* it loses a resource only in its poll loop on a not-found answer for that
\* resource, and a step of the poll loop leaves the loop without raising
\* exactly when the tracked set is empty.
C8_TrackedShrinks ==
    [][\A k \in Kinds :
          /\ pc # ListPc[k] =>
                /\ Range(arns'[k]) \subseteq Range(arns[k])
                /\ \A i \in Range(arns[k]) \ Range(arns'[k]) :
                      /\ pc = PollPc[k]
                      /\ <<k, i>> \in notFound'
                      /\ remote[k][i] = "ABSENT"
          /\ RunPollStep(k) =>
                /\ (pc' \notin {pc, "raised"}) <=> (arns'[k] = <<>>)
                /\ pc' \notin {pc, "raised"} => ended'[k] = "empty"]_vars

C8_Witness ==
    /\ pc = "delete_schemas"
    /\ ended["dataset"] = "empty"
    /\ <<"dataset", 1>> \in notFound

\* C9: a ResourceInUseException of delete_schema leaves the run in the
\* schema loop, which goes on to the next schema and to the deletion of the
\* group; any other failure of delete_schema ends the run with that error
\* and no delete_dataset_group call.
C9_SchemaErrors ==
    /\ schemaCode \in {"ok", "ResourceInUseException"} =>
          pc = "delete_schemas" /\ exc = "none"
    /\ schemaCode \notin {"none", "ok", "ResourceInUseException"} =>
          pc = "raised" /\ exc = "ClientError" /\ groupCalls = 0

C9_Witness ==
    /\ groupCalls = 1
    /\ \E s \in Ids : schemas[s] = "SHARED" /\ schemaCalls[s] > 0

\* C10 (as claimed): the run issues exactly one delete_schema call for each
\* schema the datasets of the group reference, and never two for one schema.
C10_OncePerSchema ==
    /\ \A s \in Ids : schemaCalls[s] <= 1
    /\ ended["schema"] = "attempted" =>
          \A s \in Ids : schemaCalls[s] = IF s \in Range(schemaArns) THEN 1 ELSE 0

\* C11: delete_schema is issued for a group only after the dataset poll loop
\* has ended with every listed dataset answered not-found; a run that raised
\* in the dataset phase (or before it) has issued no delete_schema call.
C11_SchemasAfterDatasets ==
    /\ (\E s \in Ids : schemaCalls[s] > 0) =>
          /\ ended["dataset"] = "empty"
          /\ arns["dataset"] = <<>>
          /\ \A i \in Ids : <<"dataset", i>> \notin unconfirmed
          /\ \A i \in Ids : remote["dataset"][i] = "ABSENT"
    /\ (pc = "raised" /\ ended["dataset"] # "empty") => schemaCalls = NoCalls

C11_Witness ==
    /\ pc = "delete_schemas"
    /\ Len(schemaArns) = 2
    /\ schemaCalls[schemaArns[1]] = 1
    /\ schemaIdx = 2

\* C12: when the lookup of a name finds no dataset group, the step of the run
\* issues no delete call and changes nothing at the service, logs the
\* warning and moves to the next name without raising.
C12_NotFoundSkipped ==
    [][(/\ pc = "next_name"
        /\ idx <= Len(names)
        /\ remoteGroup[names[idx]] = "ABSENT"
        /\ (pc' # pc \/ idx' # idx)) =>
            /\ pc' = "next_name"
            /\ exc' = "none"
            /\ idx' = idx + 1
            /\ lastLog' = "does not exist"
            /\ listedKind' = "none"
            /\ deleteCalls' = NoCalls
            /\ UNCHANGED <<remote, remoteGroup, schemas, schemaCalls, groupCalls>>]_vars

C12_Witness ==
    /\ pc = "done"
    /\ Len(names) = 2
    /\ names[1] = names[2]
    /\ groupCalls = 1
    /\ lastLog = "does not exist"

\* C13 (as claimed): in the poll loop of a kind, a describe call that fails
\* with an error other than not-found ends the run with that error.
C13_PollErrorsRaised ==
    [][\A k \in Kinds :
          (RunPollStep(k) /\ clock < MaxWaitSecs /\ failed' # {}) =>
              pc' = "raised" /\ exc' = "ClientError"]_vars

\* C14: an exception ends the invocation: once the run for a group has
\* raised, the run makes no further step, so no call is made for a later
\* name of the list.
C14_FailureEndsInvocation ==
    [][/\ exc' # "none" => pc' = "raised"
       /\ pc = "raised" =>
             UNCHANGED <<pc, exc, idx, arn, arns, schemaArns, schemaIdx, clock,
                         listedKind, listed, deleteCalls, schemaCalls, groupCalls,
                         described, notFound, failed, schemaCode, ended, lastLog>>]_vars

C14_Witness ==
    /\ pc = "raised"
    /\ exc = "ResourcePending"
    /\ idx = 1
    /\ Len(names) = 2
    /\ names[2] = "g2"
    /\ remoteGroup["g2"] = "ACTIVE"

\* C15 (as claimed): the for loop moves from a name to the next one only
\* when the group of that name is gone: looked up and not found, or deleted
\* by the run and confirmed by a not-found answer.
C15_OneAtATime ==
    [][/\ idx' \in {idx, idx + 1}
       /\ idx' = idx + 1 =>
             /\ remoteGroup[names[idx]] = "ABSENT"
             /\ lastLog' \in {"does not exist", "fully deleted"}]_vars

\* C16: with a botocore version below the minimum the run raises at the
\* version gate: it never gets past it, looks up no name and makes no list,
\* describe or delete call.
C16_VersionGate ==
    ~versionOk =>
        /\ pc \in {"check_version", "raised"}
        /\ pc = "raised" => exc = "Exception"
        /\ idx = 1
        /\ arn = "None"
        /\ arns = NoArns
        /\ remote = NoResources
        /\ \A g \in GroupNames : ~Deleting(remoteGroup[g])
        /\ listedKind = "none"
        /\ described = {}
        /\ deleteCalls = NoCalls
        /\ schemaCalls = NoCalls
        /\ groupCalls = 0
        /\ lastLog = "none"

C16_Witness ==
    /\ ~versionOk
    /\ pc = "raised"
    /\ Len(names) = 2
    /\ remoteGroup["g2"] = "ACTIVE"

\* C18 (as claimed): with wait_for_resources, when every resource a phase
\* still tracks is gone at a poll iteration before the deadline (and no
\* describe call fails), that iteration ends the phase successfully.  The
\* iteration looked at is the last one the deadline leaves time for: if it
\* does not end the phase, the deadline does, with ResourcePending.
C18_WaitRunSucceeds ==
    [][\A k \in Kinds :
          (/\ RunPollStep(k)
           /\ wait
           /\ clock < MaxWaitSecs
           /\ clock + CallSecs + SleepSecs >= MaxWaitSecs
           /\ \A i \in Range(arns[k]) : remote[k][i] = "ABSENT"
           /\ failed' = {}) =>
              pc' \notin {pc, "raised"}]_vars

\* C17 (as claimed): an invocation that completes, a re-run after a failed
\* invocation included, leaves no schema behind that only datasets of the
\* deleted groups used.
C17_RerunLeavesNothing ==
    pc = "done" => \A s \in Ids : schemas[s] # "EXCLUSIVE"

\* C19: when _main has run on a command line getopt accepts: with -h among
\* the options it has printed the usage and left with exit code 0; with
\* neither -h nor a name option (-n, --name) it has printed the usage and
\* left with a non-zero exit code; in both cases delete_dataset_groups was
\* not called.
C19_UsageExits ==
    cli.done =>
        LET parsed == Getopt(cli.argv, 1, <<>>)
            given(os) == \E i \in 1 .. Len(parsed.opts) : parsed.opts[i].opt \in os
        IN /\ (parsed.ok /\ given({"-h"})) =>
                 cli.exited /\ cli.code = 0 /\ cli.usage /\ ~cli.called
           /\ (parsed.ok /\ ~given({"-h"}) /\ ~given({"-n", "--name"})) =>
                 cli.exited /\ cli.code # 0 /\ cli.usage /\ ~cli.called

C19_Witness ==
    /\ cli.done
    /\ cli.argv = <<"-n", "g1", "-h">>
    /\ cli.exited
    /\ cli.code = 0

RECURSIVE SumSeq(_)
SumSeq(q) == IF q = <<>> THEN 0 ELSE Head(q) + SumSeq(Tail(q))

\* ForceIndex is one of true / yes / 1, whatever the case of its letters
Truthy(v) == v \in {"true", "True", "TRUE", "yes", "YES", "1"}

\* C20: when the handler has run with the products index existing and
\* ForceIndex not one of true/yes/1, it has made no delete, create or bulk
\* call and Output says the index already exists; when it has made a delete
\* call, the index existed and ForceIndex was set, and the delete was the
\* first call, followed by the create call and by bulk calls only, which
\* carried two entries for each product.
C20_ExistingIndexKept ==
    search.done =>
        /\ (search.exists /\ ~Truthy(search.force)) =>
              /\ search.calls = <<>>
              /\ search.output = "OpenSearch product index already exists"
        /\ (\E i \in 1 .. Len(search.calls) : search.calls[i] = "delete") =>
              /\ search.exists
              /\ Truthy(search.force)
              /\ Len(search.calls) >= 2
              /\ search.calls[1] = "delete"
              /\ search.calls[2] = "create"
              /\ \A i \in 3 .. Len(search.calls) : search.calls[i] = "bulk"
              /\ Len(search.batches) = Len(search.calls) - 2
              /\ SumSeq(search.batches) = 2 * search.products
              /\ search.output = "OpenSearch product index populated"

C20_Witness ==
    /\ search.done
    /\ search.force = "YES"
    /\ search.calls = <<"delete", "create", "bulk", "bulk", "bulk">>
    /\ search.batches = <<100, 100, 2>>

\* C21: when delete_dataset_group is issued for a group, and every phase before
\* it ended with nothing left to wait for, no recommender, campaign, solution,
\* event tracker, filter or dataset of the group exists, however many the
\* group had (more filters than one list_filters response returns included).
C21_NoChildLeft ==
    (groupCalls > 0 /\ \A k \in Kinds : ended[k] = "empty")
        => \A k \in Kinds : \A i \in DOMAIN remote[k] : remote[k][i] = "ABSENT"

\* C22: every delete call of the run is made under the arn of a dataset group
\* that is named in the input and was found (each listing is scoped to that
\* arn, or to a solution listed under it, and the schemas are those of the
\* datasets listed under it); a group that is not named is never deleted.
C22_OnlyNamedGroups ==
    [][/\ ( \/ \E i \in DOMAIN deleteCalls' : deleteCalls'[i] > 0
            \/ \E s \in Ids : schemaCalls'[s] > schemaCalls[s]
            \/ groupCalls' > groupCalls )
          => /\ idx \in DOMAIN names
             /\ arn = names[idx]
       /\ arn' # arn => arn' = names[idx] /\ remoteGroup[arn'] # "ABSENT"
       /\ \A g \in GroupNames \ Range(names) : remoteGroup'[g] = remoteGroup[g]
       /\ \A g \in GroupNames :
             (remoteGroup'[g] # remoteGroup[g] /\ groupCalls' > groupCalls) => g = arn
      ]_vars

\* a run that named g1 only has deleted schemas and the group g1, and g2 is
\* as it was
C22_Witness ==
    /\ names = <<"g1">>
    /\ pc = "done"
    /\ \E s \in Ids : schemaCalls[s] > 0
    /\ groupCalls > 0
    /\ remoteGroup["g1"] = "ABSENT"
    /\ remoteGroup["g2"] = "ACTIVE"

\* the bodies of the bulk calls one after the other
RECURSIVE Concat(_)
Concat(qs) == IF qs = <<>> THEN <<>> ELSE Head(qs) \o Concat(Tail(qs))

\* C23: in the bulk load every product is sent in exactly one bulk call, in list
\* order, just after an index action that carries its id and in the same call
\* as it; no bulk call has an empty body or one of more than
\* MAX_BULK_BATCH_SIZE entries.
C23_BulkBodies ==
    (search.done /\ CreateIndexAndBulkLoad(search.exists, ForceIndex(search.force)))
        => LET products == Products(search.products)
               sent == Concat(search.bodies)
           IN /\ Len(sent) = 2 * Len(products)
              /\ \A p \in DOMAIN products :
                    /\ sent[2 * p - 1] = [index |-> [_id |-> products[p].id]]
                    /\ sent[2 * p] = products[p]
              /\ \A b \in DOMAIN search.bodies :
                    /\ Len(search.bodies[b]) > 0
                    /\ Len(search.bodies[b]) % 2 = 0
                    /\ Len(search.bodies[b]) <= MAX_BULK_BATCH_SIZE
              /\ SelectSeq(search.calls, LAMBDA c : c = "bulk")
                    = [b \in DOMAIN search.bodies |-> "bulk"]

\* a load of more products than two full bulk calls hold: three calls
C23_Witness ==
    /\ search.done
    /\ search.products = 2 * (MAX_BULK_BATCH_SIZE \div 2) + 1
    /\ Len(search.bodies) = 3
    /\ Len(search.bodies[1]) = MAX_BULK_BATCH_SIZE
    /\ Len(search.bodies[3]) = 2

\* C24: the Pinpoint handler returns the endpoint keys of the event's Endpoints
\* and no other; for an endpoint with a non-empty RecommendationItems,
\* OfferCode and OfferDescription are as long as RecommendationItems and hold
\* at each position the first code and the description of the offer the
\* offers service returned for the item, or 'UNKNOWNID<item>' and 'Unknown
\* code with id <item>' when it returned none; an endpoint without
\* RecommendationItems gets an empty Recommendations.  The handler raises only
\* when the service cannot be reached or an offer has no code.
C24_OffersFilledIn ==
    pin.done =>
        /\ pin.raised # "none" =>
              \E key \in DOMAIN pin.eps : \E i \in DOMAIN pin.eps[key].items :
                 LET r == pin.offers[pin.eps[key].items[i]]
                 IN \/ r.status = "unreachable"
                    \/ r.status = "ok" /\ r.task.codes = <<>>
        /\ pin.raised = "none" =>
              /\ DOMAIN pin.result = (IF pin.has THEN DOMAIN pin.eps ELSE {})
              /\ \A key \in DOMAIN pin.result :
                    LET items == pin.eps[key].items
                        rec == pin.result[key].Recommendations
                    IN IF pin.eps[key].hasItems /\ Len(items) > 0
                       THEN /\ DOMAIN rec = {"OfferCode", "OfferDescription"}
                            /\ Len(rec.OfferCode) = Len(items)
                            /\ Len(rec.OfferDescription) = Len(items)
                            /\ \A i \in DOMAIN items :
                                  LET r == pin.offers[items[i]]
                                  IN IF r.status = "ok"
                                     THEN /\ rec.OfferCode[i] = r.task.codes[1]
                                          /\ rec.OfferDescription[i] = r.task.description
                                     ELSE /\ rec.OfferCode[i] = "UNKNOWNID" \o items[i]
                                          /\ rec.OfferDescription[i] =
                                                "Unknown code with id " \o items[i]
                       ELSE DOMAIN rec = {}

\* two endpoints, one without RecommendationItems, one with an item the
\* offers service knows and one it does not
C24_Witness ==
    /\ pin.done
    /\ pin.raised = "none"
    /\ DOMAIN pin.result = {"e1", "e2"}
    /\ ~pin.eps["e1"].hasItems
    /\ DOMAIN pin.result["e1"].Recommendations = {}
    /\ pin.eps["e2"].items = <<"7", "8">>
    /\ pin.result["e2"].Recommendations.OfferCode = <<"CODE7", "UNKNOWNID8">>
    /\ pin.result["e2"].Recommendations.OfferDescription
          = <<"Offer 7", "Unknown code with id 8">>

\* C25: the bot handler raises ValueError, before any HTTP request, when a
\* service base url is unset; it raises for an intent other than
\* RecommendProduct; for RecommendProduct it returns a Close response that is
\* 'Fulfilled' exactly when the user lookup returned a user with a non-empty
\* id and the recommendations call returned a non-empty list, and 'Failed'
\* otherwise; the recommendations service is not called when no user was
\* found.
C25_BotResponse ==
    bot.done =>
        LET unset == bot.usersUrl = "None" \/ bot.recsUrl = "None"
            found == bot.userOk /\ bot.userId \notin {"None", ""}
        IN /\ unset => bot.raised = "ValueError" /\ bot.calls = <<>>
           /\ bot.intent # "RecommendProduct" => bot.raised # "none"
           /\ (bot.raised = "none" \/ bot.calls # <<>>) =>
                 /\ bot.intent = "RecommendProduct"
                 /\ bot.raised = "none"
                 /\ bot.state \in {"Fulfilled", "Failed"}
                 /\ bot.state = "Fulfilled" <=> (found /\ bot.recsOk /\ bot.recs > 0)
                 /\ (\E i \in DOMAIN bot.calls : bot.calls[i] = "recommendations")
                       => found
           /\ (bot.usersUrl = "http://service" /\ bot.recsUrl = "http://service"
                 /\ bot.intent = "RecommendProduct") => bot.raised = "none"

\* a user was found and the recommendations service returned no product:
\* both services were called and the response is 'Failed'
C25_Witness ==
    /\ bot.done
    /\ bot.raised = "none"
    /\ bot.userOk /\ bot.userId = "u1"
    /\ bot.recsOk /\ bot.recs = 0
    /\ bot.calls = <<"users", "recommendations">>
    /\ bot.state = "Failed"

====
